---- MODULE Spec2Model ----
(***************************************************************************)
(* Model of the chat-relay assistant of src/MetaLLM.py: the per-channel    *)
(* message dispatcher (on_message, process_message_queue) with the text    *)
(* helpers it calls (get_llm_response, split_message); and of the store    *)
(* service of src/Chat History Service/main.py (add_message and the two    *)
(* queries).                                                               *)
(*                                                                         *)
(* Every `await` of the source is a suspension point: the code between two *)
(* awaits of one coroutine runs without interleaving (asyncio, one event   *)
(* loop), so one action of the model is the code from one await to the     *)
(* next.  Remote calls (store service, language-model backend, messaging   *)
(* platform) answer with any of the outcomes the code distinguishes.       *)
(***************************************************************************)
EXTENDS Integers, Sequences, FiniteSets, TLC

VARIABLES
    msgs,                 \* inbound events so far: msgs[i] is the i-th message
    handlers,             \* ids of messages whose on_message awaits record_user_message
    message_queue,        \* MetaLLM.py:48  channel -> pending messages (a dict)
    processing_channels,  \* MetaLLM.py:49  channels with a worker inside its try block
    tasks,                \* the process_message_queue tasks created so far
    hist,                 \* per message: what has been done for it so far (history)
    log,                  \* the logger of MetaLLM.py: whether the lines are kept, their number
    table,                \* main.py:22  the rows of table `messages`, in insertion order
    calls,                \* main.py:54  the add_message requests received so far
    response,             \* main.py:67,77  the answer to the latest query, until the
                          \* next add_message step
    assembly,             \* MetaLLM.py:150  the latest get_structured_input call: its
                          \* arguments, what its two queries gave, its result
    split                 \* MetaLLM.py:134  the latest split_message call: its argument
                          \* and its result

\* The dispatcher (src/MetaLLM.py) and the store service (src/Chat History
\* Service/main.py) are two processes; each is modelled with the other's
\* variables left as they are.
dispatcherVars ==
    <<msgs, handlers, message_queue, processing_channels, tasks, hist, log, assembly, split>>

storeVars == <<table, calls, response>>

vars == <<msgs, handlers, message_queue, processing_channels, tasks, hist, log,
          table, calls, response, assembly, split>>

----------------------------------------------------------------------------
(* Bounds of the model *)

\* number of inbound message events
MaxMsgs == 2

Channels == {"c1", "c2"}

----------------------------------------------------------------------------
(* Text: a string is a sequence of one-character strings *)

MAX_MESSAGE_LENGTH == 1900

WhiteSpace == {" ", "\n"}

Rep(ch, n) == [i \in 1..n |-> ch]

\* The items of a sequence
Range(s) == {s[i] : i \in 1..Len(s)}

IsSpace(ch) == ch \in WhiteSpace

\* Index of the first character of s that is no whitespace, 0 when there is none
FirstInk(s) ==
    IF \A i \in 1..Len(s) : IsSpace(s[i]) THEN 0
    ELSE CHOOSE i \in 1..Len(s) : ~IsSpace(s[i]) /\ \A j \in 1..(i - 1) : IsSpace(s[j])

\* Index of the last character of s that is no whitespace, 0 when there is none
LastInk(s) ==
    IF \A i \in 1..Len(s) : IsSpace(s[i]) THEN 0
    ELSE LET n == Len(s)
             d == CHOOSE e \in 0..(n - 1) :
                      ~IsSpace(s[n - e]) /\ \A f \in 0..(e - 1) : IsSpace(s[n - f])
         IN  n - d

\* str.lstrip(): drop the leading whitespace
lstrip(s) == IF FirstInk(s) = 0 THEN <<>> ELSE SubSeq(s, FirstInk(s), Len(s))

\* Faulty variant of strip: the text as it is
strip_Not(s) == s

\* str.strip(): drop the leading and the trailing whitespace
strip(s) == IF FirstInk(s) = 0 THEN <<>> ELSE SubSeq(s, FirstInk(s), LastInk(s))

\* s occurs in text at 0-based index i
OccursAt(text, s, i) == i + Len(s) <= Len(text) /\ \A j \in 1..Len(s) : text[i + j] = s[j]

\* text.find(s): lowest 0-based index where s occurs in text, -1 when it does not
find(text, s) ==
    LET last == Len(text) - Len(s)
    IN  IF \E i \in 0..last : OccursAt(text, s, i)
        THEN CHOOSE i \in 0..last :
                 OccursAt(text, s, i) /\ \A j \in 0..(i - 1) : ~OccursAt(text, s, j)
        ELSE -1

\* s.rfind(ch, start, end): highest 0-based index i, start <= i < end, with s[i] = ch
rfind(s, ch, start, end) ==
    LET hi == IF end < Len(s) THEN end ELSE Len(s)
    IN  IF \E i \in start..(hi - 1) : s[i + 1] = ch
        THEN LET d == CHOOSE e \in 0..(hi - 1 - start) :
                          s[hi - e] = ch /\ \A f \in 0..(e - 1) : s[hi - f] # ch
             IN  hi - 1 - d
        ELSE -1

Marker == <<"M", "e", "s", "s", "a", "g", "e", ":">>

\* get_llm_response, the status-200 branch: the text returned for a completion body
ExtractContent(text) ==
    LET full_response == strip(text)
        content_start == find(full_response, Marker) + 8
    IN  IF content_start > 8
        THEN strip(SubSeq(full_response, content_start + 1, Len(full_response)))
        ELSE full_response

RECURSIVE split_message(_)
split_message(content) ==
    IF Len(content) > MAX_MESSAGE_LENGTH
    THEN LET found == rfind(content, " ", 0, MAX_MESSAGE_LENGTH)
             split_index == IF found = -1 THEN MAX_MESSAGE_LENGTH ELSE found
         IN  <<SubSeq(content, 1, split_index)>>
               \o split_message(lstrip(SubSeq(content, split_index + 1, Len(content))))
    ELSE <<content>>

\* The replies split_message is tried on, as get_llm_response returns them
\* (for the bodies SplitBodies): texts without
\* whitespace, and three runs of letters with one whitespace character after
\* the first and after the second, the first run ending before, at and after
\* MAX_MESSAGE_LENGTH.
Run1 == {1000, MAX_MESSAGE_LENGTH - 1, MAX_MESSAGE_LENGTH, MAX_MESSAGE_LENGTH + 1}

Run2 == {0, MAX_MESSAGE_LENGTH - 1001, MAX_MESSAGE_LENGTH}

Run3 == {1, MAX_MESSAGE_LENGTH}

Gaps == {" ", "\n"}

Solid == {1, MAX_MESSAGE_LENGTH, MAX_MESSAGE_LENGTH + 1, 2 * MAX_MESSAGE_LENGTH,
          2 * MAX_MESSAGE_LENGTH + 1}

\* Where the one space of a reply of twice MAX_MESSAGE_LENGTH stands: in the
\* first half, just before the middle, in the second half
OneSpaceAt == {1000, MAX_MESSAGE_LENGTH - 1, 2500}

SplitInputs ==
    {Rep("a", n) : n \in Solid}
    \cup {Rep("a", i) \o <<" ">> \o Rep("b", 2 * MAX_MESSAGE_LENGTH - 1 - i) : i \in OneSpaceAt}
    \cup {Rep("a", i) \o <<g1>> \o Rep("b", j) \o <<g2>> \o Rep("c", k) :
             i \in Run1, g1 \in Gaps, j \in Run2, g2 \in Gaps, k \in Run3}

\* The completion bodies these replies come from: the backend puts
\* whitespace around its text
SplitBodies == {<<" ">> \o text \o <<"\n">> : text \in SplitInputs}

NoSplit == [called |-> FALSE, content |-> <<>>, parts |-> <<>>]

----------------------------------------------------------------------------
(* The environment's inputs *)

\* What an inbound message looks like to the two relevance tests.
\*   self:      authored by the assistant itself
\*   mentioned: bot.user.mentioned_in(message)
\*   named:     the assistant's name occurs in the text, case-insensitively
\*   bot:       message.author.bot
\*   peer:      the author's name, upper-cased, is one of OTHER_BOTS
\*   reply:     message.reference.resolved.author == bot.user
\*   sampled:   random.random() < 0.1 in on_message
\*   deleted:   message.reference.resolved is the placeholder the platform
\*              library puts for a referenced message that has been deleted
\*              (discord.DeletedReferencedMessage: it has no `author`)
MsgShape(self, mentioned, named, bot, peer, reply, sampled, deleted) ==
    [self |-> self, mentioned |-> mentioned, named |-> named, bot |-> bot,
     peer |-> peer, reply |-> reply, sampled |-> sampled, deleted |-> deleted]

\* One kind of message for each way through on_message and the worker's filter:
\* enqueued and relevant (addressed), enqueued and not relevant (sampled),
\* not enqueued (plain), the assistant's own (own), a reply to a deleted
\* message (orphan).
MsgKinds ==
    [ addressed |-> MsgShape(FALSE, TRUE,  FALSE, FALSE, FALSE, FALSE, FALSE, FALSE),
      sampled   |-> MsgShape(FALSE, FALSE, FALSE, FALSE, FALSE, FALSE, TRUE,  FALSE),
      plain     |-> MsgShape(FALSE, FALSE, FALSE, FALSE, FALSE, FALSE, FALSE, FALSE),
      own       |-> MsgShape(TRUE,  FALSE, FALSE, TRUE,  FALSE, FALSE, FALSE, FALSE),
      orphan    |-> MsgShape(FALSE, TRUE,  FALSE, FALSE, FALSE, FALSE, FALSE, TRUE) ]

\* The completion bodies the backend answers with (status 200).
\* short, long, blank: without the marker "Message:"; inner, twice, first,
\* last, bare: with the marker inside, twice, at the start, at the end, alone.
LLMTexts ==
    [ short |-> <<" ", "o", "k", "\n">>,
      long  |-> Rep("a", MAX_MESSAGE_LENGTH - 1) \o <<" ">> \o Rep("b", MAX_MESSAGE_LENGTH),
      blank |-> <<" ", "\n">>,
      inner |-> <<"x", " ">> \o Marker \o <<" ", "y">>,
      twice |-> <<"x", " ">> \o Marker \o <<" ", "y", " ">> \o Marker \o <<" ", "z">>,
      first |-> <<" ">> \o Marker \o <<" ", "y", "\n">>,
      last  |-> <<"x", " ">> \o Marker \o <<" ", "\n">>,
      bare  |-> <<" ">> \o Marker \o <<"\n">> ]

None == "None"

\* The text get_llm_response returns for each completion body
Content == [r \in DOMAIN LLMTexts |-> ExtractContent(LLMTexts[r])]

\* response_content of process_message_queue for a backend answer r:
\* None for a failed call, else the extracted text
ResponseContent(r) == IF r = None THEN None ELSE Content[r]

\* Python truth of response_content: None and the empty string are false
Truthy(r) == r # None /\ Len(Content[r]) > 0

\* send_split_message: parts, for each completion body with a non-empty text
ReplyParts == [r \in {x \in DOMAIN LLMTexts : Len(Content[x]) > 0} |-> split_message(Content[r])]

----------------------------------------------------------------------------
(* The store service's data (src/Chat History Service/main.py) *)

\* number of add_message requests
MaxAdds == 2

\* A text (the content of a message, a query) is named by a number.  The
\* vector the embedding backend answers for it (status 200): the same vector
\* for the same text, another direction for another text.
Embed(text) == <<1, text - 1>>

\* The texts of the add_message requests and of the queries
Texts == {1, 2}

\* role of record_user_message: "user" if message.author.bot else "human"
UserRole(bot) == IF bot THEN "user" ELSE "human"

\* bot_message["role"]
ReplyRole == "assistant"

\* The authors: a person, another bot, the assistant itself (bot.user)
Authors ==
    [u1 |-> [bot |-> FALSE, self |-> FALSE],
     b1 |-> [bot |-> TRUE, self |-> FALSE],
     me |-> [bot |-> TRUE, self |-> TRUE]]

\* f"<@{author.id}>"
Mention(author) == IF author = "u1" THEN "<@u1>" ELSE IF author = "b1" THEN "<@b1>" ELSE "<@me>"

\* The author of each text
AuthorOf(content) == IF content % 3 = 1 THEN "u1" ELSE IF content % 3 = 2 THEN "b1" ELSE "me"

\* The body of an add_message request (class Message) as the dispatcher
\* builds it, in record_user_message for an inbound message and as
\* bot_message for a reply: one author and reply target for each text
Message(channel_id, content) ==
    [channel_id |-> channel_id,
     user_id |-> Mention(AuthorOf(content)),
     content |-> content,
     replying_to |-> IF content % 2 = 0 THEN "<@u1>" ELSE None,
     role |-> IF Authors[AuthorOf(content)].self THEN ReplyRole
              ELSE UserRole(Authors[AuthorOf(content)].bot)]

\* Python's None as an embedding: get_embedding returned None.  The backend's
\* vectors are never empty.
NoEmbedding == <<>>

\* How a call of the embedding backend ends: status 200, another status, or
\* no connection (aiohttp raises ClientError)
EmbeddingOutcomes == {"ok", "non200", "unreachable"}

\* get_embedding(text) when it returns: the vector, or None for a non-200 answer
get_embedding(text, outcome) == IF outcome = "ok" THEN Embed(text) ELSE NoEmbedding

\* json.dumps / json.loads of column `embedding`: None is stored as the text
\* null and read back as None, a vector as the text of a list and read back
\* as written
json_dumps(e) == IF e = NoEmbedding THEN [text |-> "null", list |-> <<>>]
                                    ELSE [text |-> "list", list |-> e]

json_loads(col) == IF col.text = "null" THEN NoEmbedding ELSE col.list

\* The values of query parameter `limit` that are tried
Limits == {0, 1, 2}

\* The answer to a query: the request (op, channel_id, query, limit), how the
\* lookup of the query's embedding ended (lookup), the number of rows the
\* table had when it was read (at), the HTTP status and the ids of the
\* messages returned
NoResponse ==
    [op |-> "-", channel_id |-> "-", query |-> 0, limit |-> 0, lookup |-> "-", at |-> 0,
     status |-> 0, ids |-> <<>>]

\* Faulty variant of RowsOf: the rows of every channel
RowsOf_AnyChannel(rows, channel_id) == [i \in 1..Len(rows) |-> i]

\* The ids (rowids) of the rows of a channel, in rowid order
RowsOf(rows, channel_id) ==
    SelectSeq([i \in 1..Len(rows) |-> i], LAMBDA i : rows[i].channel_id = channel_id)

\* The ids `ids` in the order ORDER BY timestamp DESC gives them.  (Every row
\* has its own timestamp: the clock has moved on between two requests.)
OrderByTimestampDesc(rows, ids) ==
    [k \in 1..Len(ids) |->
        CHOOSE i \in Range(ids) :
            Cardinality({j \in Range(ids) : rows[j].timestamp > rows[i].timestamp}) = k - 1]

Reversed(seq) == [k \in 1..Len(seq) |-> seq[Len(seq) + 1 - k]]

\* LIMIT n of SQLite, n >= 0: the first n rows
Limit(seq, n) == SubSeq(seq, 1, IF n < Len(seq) THEN n ELSE Len(seq))

\* get_conversation_history: the ids of the messages returned, in order
get_conversation_history(rows, channel_id, limit) ==
    Reversed(Limit(OrderByTimestampDesc(rows, RowsOf(rows, channel_id)), limit))

Dot(u, v) == u[1] * v[1] + u[2] * v[2]

\* cosine_similarity(q, e1) < cosine_similarity(q, e2), for vectors without a
\* negative coordinate: dot/(|q||e|) compared by its square, |q| cancelled
SimLess(q, e1, e2) == Dot(q, e1) * Dot(q, e1) * Dot(e2, e2) < Dot(q, e2) * Dot(q, e2) * Dot(e1, e1)

\* The orders of the positions S of es by ascending similarity to q
RECURSIVE AscendingOrders(_, _, _)
AscendingOrders(q, es, S) ==
    IF S = {} THEN {<<>>}
    ELSE UNION {{<<i>> \o rest : rest \in AscendingOrders(q, es, S \ {i})} :
                   i \in {i \in S : \A j \in S : ~SimLess(q, es[j], es[i])}}

\* np.argsort(similarities), default kind (quicksort, not stable): the
\* positions 1..Len(es) by ascending similarity to q; positions of equal
\* similarity come in an order the library does not fix, so every ascending
\* order is a possible result.
argsort(q, es) == AscendingOrders(q, es, 1..Len(es))

\* seq[-n:] of Python, n >= 0: the last n items, and all of them for n = 0
LastItems(seq, n) ==
    IF n = 0 \/ n >= Len(seq) THEN seq ELSE SubSeq(seq, Len(seq) - n + 1, Len(seq))

\* get_relevant_context from line 81 on, for the query embedding q: whether
\* cosine_similarity accepts its arguments.  It raises ValueError when q is
\* None or when a row's embedding is None (the arguments are no 2-D arrays of
\* numbers).
SimilarityDefined(rows, channel_id, q) ==
    /\ q # NoEmbedding
    /\ \A i \in Range(RowsOf(rows, channel_id)) : json_loads(rows[i].embedding) # NoEmbedding

\* get_relevant_context: the ids of the messages returned, in order, for each
\* possible result of argsort
get_relevant_context(rows, channel_id, q, limit) ==
    LET messages == RowsOf(rows, channel_id)
        embeddings == [k \in 1..Len(messages) |-> json_loads(rows[messages[k]].embedding)]
    IN  { LET top_indices == Reversed(LastItems(order, limit))
          IN  [k \in 1..Len(top_indices) |-> messages[top_indices[k]]] :
              order \in argsort(q, embeddings) }

\* GET /get_relevant_context: the answers it can give (status, ids of the
\* messages), from the end of its get_embedding(query) on.  Status 500 when
\* get_embedding or cosine_similarity raised.
RelevantContextAnswers(rows, channel_id, query, outcome, limit) ==
    LET q == get_embedding(query, outcome)
    IN  IF outcome = "unreachable" THEN {[status |-> 500, ids |-> <<>>]}
        ELSE IF RowsOf(rows, channel_id) = <<>> THEN {[status |-> 200, ids |-> <<>>]}
        ELSE IF ~SimilarityDefined(rows, channel_id, q) THEN {[status |-> 500, ids |-> <<>>]}
        ELSE {[status |-> 200, ids |-> ids] :
                 ids \in get_relevant_context(rows, channel_id, q, limit)}

\* The list of dicts a query answers with, for the rows `ids`: columns id,
\* user_id, timestamp, replying_to, content, role under the keys the client
\* reads
Answer(rows, ids) ==
    [k \in 1..Len(ids) |->
        [id |-> ids[k], user |-> rows[ids[k]].user_id, timestamp |-> rows[ids[k]].timestamp,
         replying_to |-> rows[ids[k]].replying_to, content |-> rows[ids[k]].content,
         role |-> rows[ids[k]].role]]

\* Faulty variant of Insert: the new row takes the place of the last one
Insert_Replace(rows, row) == IF rows = <<>> THEN <<row>> ELSE [rows EXCEPT ![Len(rows)] = row]

\* INSERT INTO messages: the row gets the next rowid
Insert(rows, row) == Append(rows, row)

----------------------------------------------------------------------------
(* The prompt: get_structured_input and the two queries it makes *)

\* The largest number of stored messages a prompt is assembled over
MaxRows == 11

\* The default `limit` of the dispatcher's two queries
history_limit == 10

context_limit == 5

\* The text None that stands in a framed entry for a missing reply target,
\* written with quotes to tell it from Python's None
NoneMarker == "'None'"

\* Faulty variant of OrNone: no marker for a missing reply target
OrNone_Raw(replying_to) == replying_to

\* msg['replying_to'] or 'None'
OrNone(replying_to) == IF replying_to = None THEN NoneMarker ELSE replying_to

\* Faulty variant of speaker_type: role user framed as a person
speaker_type_UserHuman(role) == IF role \in {"human", "user"} THEN "Human" ELSE "AI Assistant"

\* "Human" if msg['role'] == "human" else "AI Assistant"
speaker_type(role) == IF role = "human" THEN "Human" ELSE "AI Assistant"

\* "Human" if not current_message.author.bot else "AI Assistant"
current_speaker_type(current_message) ==
    IF ~current_message.author.bot THEN "Human" ELSE "AI Assistant"

\* The entries of a prompt, each with role system; `form` names the f-string
\* the content is written with and the other fields are the values put in
\* its slots.
Framing == [role |-> "system", form |-> "framing"]

Delimiter(text) == [role |-> "system", form |-> "delimiter", text |-> text]

\* "[Message {id}]\nSpeaker: {user} (Type: {speaker_type})\nTime: {timestamp}\n
\*  Replying To: {replying_to or 'None'}\nMessage: {content}"
Framed(msg) ==
    [role |-> "system", form |-> "message", id |-> msg.id, speaker |-> msg.user,
     type |-> speaker_type(msg.role), time |-> msg.timestamp,
     replying_to |-> OrNone(msg.replying_to), message |-> msg.content]

\* "Respond to: [Message {id}] Speaker: <@{author.id}> (Type: {type}) said: {content}"
RespondTo(current_message) ==
    [role |-> "system", form |-> "respond", id |-> current_message.id,
     speaker |-> current_message.author.id, type |-> current_speaker_type(current_message),
     said |-> current_message.content]

FramedAll(list) == [k \in 1..Len(list) |-> Framed(list[k])]

\* Faulty variant of get_structured_input: the recent block before the
\* similar block
get_structured_input_RecentFirst(history, relevant_context, current_message) ==
    <<Framing, Delimiter("--- Recent Messages Start ---")>>
    \o FramedAll(history)
    \o <<Delimiter("--- Recent Messages End ---"), Delimiter("--- RAG Context Start ---")>>
    \o FramedAll(relevant_context)
    \o <<Delimiter("--- RAG Context End ---"), Delimiter("--- Task ---"),
         RespondTo(current_message)>>

\* get_structured_input from line 154 on, with what its two queries gave
get_structured_input(history, relevant_context, current_message) ==
    <<Framing, Delimiter("--- RAG Context Start ---")>>
    \o FramedAll(relevant_context)
    \o <<Delimiter("--- RAG Context End ---"), Delimiter("--- Recent Messages Start ---")>>
    \o FramedAll(history)
    \o <<Delimiter("--- Recent Messages End ---"), Delimiter("--- Task ---"),
         RespondTo(current_message)>>

\* Faulty variant of QueryResult: the body, whatever the status
QueryResult_AnyStatus(reachable, status, body) == body

\* What the dispatcher's query functions return: the body of a 200 answer,
\* and [] for another status or when the request raised (reachable FALSE)
QueryResult(reachable, status, body) == IF reachable /\ status = 200 THEN body ELSE <<>>

\* A discord.Message as get_structured_input reads it
DiscordMessage(id, author_id, bot, content, created_at, reference) ==
    [id |-> id, author |-> [id |-> author_id, bot |-> bot], content |-> content,
     created_at |-> created_at, reference |-> reference]

\* The triggering messages that are tried: one of a human, the same sent at
\* another time, the same as a reply, and one of a bot
CurrentMessages ==
    {DiscordMessage(901, "u1", FALSE, 1, 50, None),
     DiscordMessage(901, "u1", FALSE, 1, 51, None),
     DiscordMessage(901, "u1", FALSE, 1, 50, "<@b1>"),
     DiscordMessage(902, "b1", TRUE, 2, 50, None)}

NoAssembly ==
    [called |-> FALSE, channel_id |-> "-", current_message |-> DiscordMessage(0, "-", FALSE, 0, 0, None),
     failed |-> [history |-> FALSE, context |-> FALSE],
     history |-> <<>>, relevant_context |-> <<>>, structured_input |-> <<>>]

\* The stores a prompt is assembled over: n add_message calls with texts
\* 1..n, all ended.  Shapes: every message in channel c1 ("one"); every third
\* one in c2 ("two"); the first one stored without embedding ("gap"); the
\* first two inserted in the reverse order of their timestamps ("late").
Shapes == {"one", "two", "gap", "late"}

PromptCalls(n, shape) ==
    [i \in 1..n |->
        [message |-> Message(IF shape = "two" /\ i % 3 = 0 THEN "c2" ELSE "c1", i),
         timestamp |-> i, pc |-> "done",
         lookup |-> IF shape = "gap" /\ i = 1 THEN "non200" ELSE "ok",
         status |-> 200,
         message_id |-> IF shape = "late" /\ n >= 2 /\ i <= 2 THEN 3 - i ELSE i]]

PromptTable(n, shape) ==
    LET cs == PromptCalls(n, shape)
        callOf(k) == CHOOSE i \in 1..n : cs[i].message_id = k
    IN  [k \in 1..n |->
            [channel_id |-> cs[callOf(k)].message.channel_id,
             user_id |-> cs[callOf(k)].message.user_id,
             timestamp |-> cs[callOf(k)].timestamp,
             replying_to |-> cs[callOf(k)].message.replying_to,
             content |-> cs[callOf(k)].message.content,
             embedding |-> json_dumps(get_embedding(cs[callOf(k)].message.content,
                                                    cs[callOf(k)].lookup)),
             role |-> cs[callOf(k)].message.role,
             call |-> callOf(k)]]

----------------------------------------------------------------------------
(* The dispatcher's data *)

Kind(m) == MsgKinds[msgs[m].kind]

\* on_message: should_process
ShouldProcess(m) ==
    \/ Kind(m).mentioned
    \/ Kind(m).named
    \/ Kind(m).bot
    \/ Kind(m).reply
    \/ Kind(m).sampled

\* process_message_queue: the test of the relevant_messages comprehension
Relevant(m) ==
    \/ Kind(m).mentioned
    \/ Kind(m).named
    \/ Kind(m).peer
    \/ Kind(m).reply

\* record_user_message: the role an inbound message is recorded with
InboundRole(m) == UserRole(Kind(m).bot)

\* Faulty variant of record_chat_history: a failed request raises to the caller
record_chat_history_Raises(ok) == IF ok THEN "stored" ELSE "raised"

\* record_chat_history, seen from its caller: the store answered 200 (ok), or
\* the request failed (non-200, unreachable) and the failure was logged inside
\* the function's own try block; it returns in both cases.
record_chat_history(ok) == IF ok THEN "stored" ELSE "logged"

\* record_chat_history's logger.error("Failed to record chat history: ...") for
\* a request that failed: one more line, when the lines are kept.  (The line
\* holds the error text, not the message.)
Logged(ok) == IF ok \/ ~log.on THEN log ELSE [log EXCEPT !.lines = @ + 1]

\* record_user_message up to its call of record_chat_history: building
\* user_message reads message.reference.resolved.author, which raises
\* AttributeError when the referenced message has been deleted.
BuildsUserMessage(kind) == ~MsgKinds[kind].deleted

\* What has happened for one message (history, read by no action):
\*   submitted  add_message requests made for it by record_user_message
\*   asm        get_structured_input calls that returned for it
\*   enq        its position in the enqueue order of its channel, 0: not enqueued
\*   mates      the messages pending in the channel's queue when it was enqueued
\*   by, batch  the task that took it and the number of that task's take, 0: not taken
\*   req        completion requests issued for it
\*   resp       what get_llm_response returned for it: "none" (the call failed),
\*              "empty" (an empty text), "text", or "-": no return yet
\*   parts      the number of chunks split_message makes of the reply, 0: no reply
\*   rows       the roles of the add_message requests made for its reply, in order
\*   chunks     channel.send calls made for its reply (sent: those that returned)
\*   apol       msg.reply calls made with the apology
\*   done       the for body of process_message_queue has ended for it
NoHist ==
    [submitted |-> 0, asm |-> 0, enq |-> 0, mates |-> {}, by |-> 0, batch |-> 0, req |-> 0, resp |-> "-", parts |-> 0,
     rows |-> <<>>, chunks |-> 0, sent |-> 0, apol |-> 0, done |-> FALSE]

\* A task as asyncio.create_task leaves it: created, not yet run.
\*   batch, idx: relevant_messages and the position of msg in it
\*   resp: the backend's answer, k: chunks of the reply sent so far, takes: pops so far
NewTask(c) ==
    [ch |-> c, pc |-> "scheduled", batch |-> <<>>, idx |-> 0, resp |-> None, k |-> 0, takes |-> 0]

\* A task that has returned.
Finished(c) ==
    [ch |-> c, pc |-> "done", batch |-> <<>>, idx |-> 0, resp |-> None, k |-> 0, takes |-> 0]

Pop(q, c) == [d \in DOMAIN q \ {c} |-> q[d]]

\* Faulty variant of MayStart: the guard without the test of processing_channels
MayStart_NoProcessingTest(c) == c \in DOMAIN message_queue

\* Faulty variant of MayStart: one worker at a time for all channels
MayStart_NoOtherWorker(c) == c \in DOMAIN message_queue /\ processing_channels = {}

\* The guard of process_message_queue: the task becomes the channel's worker
MayStart(c) == c \in DOMAIN message_queue /\ c \notin processing_channels

\* The test of the while loop of process_message_queue
LoopTest(c) == c \in DOMAIN message_queue

\* The current message of worker t and the chunks of its reply
CurMsg(t) == tasks[t].batch[tasks[t].idx]

Parts(t) == ReplyParts[tasks[t].resp]

Active(t) == tasks[t].pc \notin {"scheduled", "done"}

----------------------------------------------------------------------------
(* Initial state: the module-level assignments of MetaLLM.py *)

DispatcherInit ==
    /\ msgs = <<>>
    /\ handlers = {}
    /\ message_queue = <<>>
    /\ processing_channels = {}
    /\ tasks = <<>>
    /\ hist = <<>>

\* main.py:20-31: table `messages` as CREATE TABLE leaves it in a new database,
\* no request received
StoreInit ==
    /\ table = <<>>
    /\ calls = <<>>
    /\ response = NoResponse

\* The lines of the logger are not kept (they are in LoggedSpec).
Init ==
    /\ DispatcherInit
    /\ log = [on |-> FALSE, lines |-> 0]
    /\ StoreInit
    /\ assembly = NoAssembly
    /\ split = NoSplit

----------------------------------------------------------------------------
(* on_message *)

\* Faulty variant of Arrive: no test of the author, the assistant's own
\* messages are handled like any other
Arrive_OwnHandled(c, kind) ==
    /\ Len(msgs) < MaxMsgs
    /\ msgs' = Append(msgs, [ch |-> c, kind |-> kind])
    /\ hist' = Append(hist, NoHist)
    /\ handlers' = IF ~BuildsUserMessage(kind)
                   THEN handlers
                   ELSE handlers \cup {Len(msgs) + 1}
    /\ UNCHANGED <<message_queue, processing_channels, tasks>>
    /\ UNCHANGED <<log, table, calls, response, assembly, split>>

\* The platform delivers a message: on_message runs up to its first await.
\* A message of the assistant itself returns at once; any other one calls
\* record_user_message, which raises out of on_message before its first await
\* when user_message cannot be built, and else awaits record_chat_history.
Arrive(c, kind) ==
    /\ Len(msgs) < MaxMsgs
    /\ msgs' = Append(msgs, [ch |-> c, kind |-> kind])
    /\ hist' = Append(hist, NoHist)
    /\ handlers' = IF MsgKinds[kind].self \/ ~BuildsUserMessage(kind)
                   THEN handlers
                   ELSE handlers \cup {Len(msgs) + 1}
    /\ UNCHANGED <<message_queue, processing_channels, tasks>>
    /\ UNCHANGED <<log, table, calls, response, assembly, split>>

\* on_message: the queue update of a message that should be processed
Enqueue(c, m) ==
    IF c \notin DOMAIN message_queue
    THEN /\ message_queue' = [d \in DOMAIN message_queue \cup {c} |->
                                 IF d = c THEN <<m>> ELSE message_queue[d]]
         /\ tasks' = Append(tasks, NewTask(c))
    ELSE /\ message_queue' = [message_queue EXCEPT ![c] = Append(@, m)]
         /\ tasks' = tasks

Pending(c) == IF c \in DOMAIN message_queue THEN Range(message_queue[c]) ELSE {}

EnqueuedIn(c) == {m \in 1..Len(msgs) : msgs[m].ch = c /\ hist[m].enq > 0}

\* Faulty variant of OnMessageResume: the message is enqueued while its
\* record_user_message has not finished
OnMessageResume_EnqueueFirst(m, ok) ==
    /\ m \in handlers
    /\ handlers' = handlers \ {m}
    /\ log' = Logged(ok)
    /\ LET c == msgs[m].ch
       IN  IF ShouldProcess(m)
           THEN /\ Enqueue(c, m)
                /\ hist' = [hist EXCEPT ![m] =
                       [@ EXCEPT !.enq = Cardinality(EnqueuedIn(c)) + 1, !.mates = Pending(c)]]
           ELSE /\ hist' = [hist EXCEPT ![m].submitted = @ + 1]
                /\ UNCHANGED <<message_queue, tasks>>
    /\ UNCHANGED <<msgs, processing_channels>>
    /\ UNCHANGED <<table, calls, response, assembly, split>>

\* The request of record_chat_history is over (ok: the store answered 200):
\* record_user_message returns and on_message runs from there to its end.
OnMessageResume(m, ok) ==
    /\ m \in handlers
    /\ handlers' = handlers \ {m}
    /\ log' = Logged(ok)
    /\ LET c == msgs[m].ch
       IN  IF record_chat_history(ok) # "raised" /\ ShouldProcess(m)
           THEN /\ Enqueue(c, m)
                /\ hist' = [hist EXCEPT ![m] =
                       [@ EXCEPT !.submitted = @ + 1, !.enq = Cardinality(EnqueuedIn(c)) + 1,
                                 !.mates = Pending(c)]]
           ELSE /\ hist' = [hist EXCEPT ![m].submitted = @ + 1]
                /\ UNCHANGED <<message_queue, tasks>>
    /\ UNCHANGED <<msgs, processing_channels>>
    /\ UNCHANGED <<table, calls, response, assembly, split>>

----------------------------------------------------------------------------
(* process_message_queue *)

\* The while loop from its test to the first await of the batch it takes;
\* proc is processing_channels as the caller leaves it.  A batch without a
\* relevant message `continue`s to the test, which the pop has made false.
EnterLoop(t, proc) ==
    LET c == tasks[t].ch
    IN  IF LoopTest(c)
        THEN LET messages == message_queue[c]
                 relevant_messages == SelectSeq(messages, Relevant)
                 n == tasks[t].takes + 1
             IN  /\ message_queue' = Pop(message_queue, c)
                 /\ hist' = [m \in 1..Len(hist) |->
                                IF m \in Range(messages)
                                THEN [hist[m] EXCEPT !.by = t, !.batch = n]
                                ELSE hist[m]]
                 /\ IF relevant_messages = <<>>
                    THEN /\ tasks' = [tasks EXCEPT ![t] = Finished(c)]
                         /\ processing_channels' = proc \ {c}
                    ELSE /\ tasks' = [tasks EXCEPT ![t] =
                                [@ EXCEPT !.pc = "assemble", !.batch = relevant_messages,
                                          !.idx = 1, !.takes = n]]
                         /\ processing_channels' = proc
        ELSE /\ tasks' = [tasks EXCEPT ![t] = Finished(c)]
             /\ processing_channels' = proc \ {c}
             /\ UNCHANGED <<message_queue, hist>>

\* The task runs for the first time.
Start(t) ==
    /\ tasks[t].pc = "scheduled"
    /\ IF MayStart(tasks[t].ch)
       THEN EnterLoop(t, processing_channels \cup {tasks[t].ch})
       ELSE /\ tasks' = [tasks EXCEPT ![t] = Finished(tasks[t].ch)]
            /\ UNCHANGED <<message_queue, processing_channels, hist>>
    /\ UNCHANGED <<msgs, handlers>>
    /\ UNCHANGED <<log, table, calls, response, assembly, split>>

\* get_structured_input has returned; the worker enters msg.channel.typing().
Assembled(t) ==
    /\ tasks[t].pc = "assemble"
    /\ tasks' = [tasks EXCEPT ![t].pc = "typing"]
    /\ hist' = [hist EXCEPT ![CurMsg(t)].asm = @ + 1]
    /\ UNCHANGED <<msgs, handlers, message_queue, processing_channels>>
    /\ UNCHANGED <<log, table, calls, response, assembly, split>>

\* typing() is entered; the worker calls get_llm_response.
TypingOk(t) ==
    /\ tasks[t].pc = "typing"
    /\ tasks' = [tasks EXCEPT ![t].pc = "llm"]
    /\ hist' = [hist EXCEPT ![CurMsg(t)].req = @ + 1]
    /\ UNCHANGED <<msgs, handlers, message_queue, processing_channels>>
    /\ UNCHANGED <<log, table, calls, response, assembly, split>>

\* `except Exception` and `finally` of process_message_queue: the task ends.
Abort(t) ==
    /\ tasks' = [tasks EXCEPT ![t] = Finished(tasks[t].ch)]
    /\ processing_channels' = processing_channels \ {tasks[t].ch}

\* Entering typing() raises (the platform rejects the request).
TypingRaises(t) ==
    /\ tasks[t].pc = "typing"
    /\ Abort(t)
    /\ UNCHANGED <<msgs, handlers, message_queue, hist>>
    /\ UNCHANGED <<log, table, calls, response, assembly, split>>

\* The kind of value get_llm_response returned
ResponseClass(r) == IF r = None THEN "none" ELSE IF Len(Content[r]) = 0 THEN "empty" ELSE "text"

\* Faulty variant of AfterResponse: the reply is recorded before response_content is tested
AfterResponse_RecordFirst(r) == "record"

\* Faulty variant of AfterResponse: a reply is sent without being recorded
AfterResponse_NoRecord(r) == IF Truthy(r) THEN "send" ELSE "apology"

\* What the worker does with response_content: record and send it, or apologise
AfterResponse(r) == IF Truthy(r) THEN "record" ELSE "apology"

\* get_llm_response returns: r names the completion body, None a failed call.
LLMReturns(t, r) ==
    /\ tasks[t].pc = "llm"
    /\ tasks' = [tasks EXCEPT ![t] = [@ EXCEPT !.resp = r, !.pc = AfterResponse(r)]]
    /\ hist' = [hist EXCEPT ![CurMsg(t)] =
           [@ EXCEPT !.resp = ResponseClass(r),
                     !.parts = IF Truthy(r) THEN Len(ReplyParts[r]) ELSE 0]]
    /\ UNCHANGED <<msgs, handlers, message_queue, processing_channels>>
    /\ UNCHANGED <<log, table, calls, response, assembly, split>>

\* The request of record_chat_history(channel_id, bot_message) is over (ok: the
\* store answered 200); the worker goes on to send the first chunk.
Recorded(t, ok) ==
    /\ tasks[t].pc = "record"
    /\ IF record_chat_history(ok) = "raised"
       THEN Abort(t)
       ELSE /\ tasks' = [tasks EXCEPT ![t].pc = "send"]
            /\ UNCHANGED processing_channels
    /\ hist' = [hist EXCEPT ![CurMsg(t)].rows = Append(@, ReplyRole)]
    /\ log' = Logged(ok)
    /\ UNCHANGED <<msgs, handlers, message_queue>>
    /\ UNCHANGED <<table, calls, response, assembly, split>>

\* The end of the for body: the next relevant message, or the sleep after the batch.
NextMessage(t) ==
    IF tasks[t].idx < Len(tasks[t].batch)
    THEN [tasks[t] EXCEPT !.pc = "assemble", !.idx = @ + 1, !.resp = None, !.k = 0]
    ELSE [tasks[t] EXCEPT !.pc = "sleep", !.batch = <<>>, !.idx = 0, !.resp = None, !.k = 0]

\* channel.send(part) returns: the next chunk, or the end of the for body.
SendOk(t) ==
    /\ tasks[t].pc = "send"
    /\ LET last == tasks[t].k + 1 >= Len(Parts(t))
       IN  /\ tasks' = [tasks EXCEPT ![t] = IF last THEN NextMessage(t) ELSE [@ EXCEPT !.k = @ + 1]]
           /\ hist' = [hist EXCEPT ![CurMsg(t)] =
                  [@ EXCEPT !.chunks = @ + 1, !.sent = @ + 1, !.done = last]]
    /\ UNCHANGED <<msgs, handlers, message_queue, processing_channels>>
    /\ UNCHANGED <<log, table, calls, response, assembly, split>>

\* channel.send(part) raises.
SendRaises(t) ==
    /\ tasks[t].pc = "send"
    /\ Abort(t)
    /\ hist' = [hist EXCEPT ![CurMsg(t)].chunks = @ + 1]
    /\ UNCHANGED <<msgs, handlers, message_queue>>
    /\ UNCHANGED <<log, table, calls, response, assembly, split>>

\* msg.reply(apology) returns.
ApologyOk(t) ==
    /\ tasks[t].pc = "apology"
    /\ tasks' = [tasks EXCEPT ![t] = NextMessage(t)]
    /\ hist' = [hist EXCEPT ![CurMsg(t)] = [@ EXCEPT !.apol = @ + 1, !.done = TRUE]]
    /\ UNCHANGED <<msgs, handlers, message_queue, processing_channels>>
    /\ UNCHANGED <<log, table, calls, response, assembly, split>>

\* msg.reply(apology) raises.
ApologyRaises(t) ==
    /\ tasks[t].pc = "apology"
    /\ Abort(t)
    /\ hist' = [hist EXCEPT ![CurMsg(t)].apol = @ + 1]
    /\ UNCHANGED <<msgs, handlers, message_queue>>
    /\ UNCHANGED <<log, table, calls, response, assembly, split>>

\* Faulty variant of Slept: `if` for `while`, the worker returns after its first batch
Slept_NoLoop(t) ==
    /\ tasks[t].pc = "sleep"
    /\ tasks' = [tasks EXCEPT ![t] = Finished(tasks[t].ch)]
    /\ processing_channels' = processing_channels \ {tasks[t].ch}
    /\ UNCHANGED <<msgs, handlers, message_queue, hist>>
    /\ UNCHANGED <<log, table, calls, response, assembly, split>>

\* asyncio.sleep(1) returns: back to the while test.
Slept(t) ==
    /\ tasks[t].pc = "sleep"
    /\ EnterLoop(t, processing_channels)
    /\ UNCHANGED <<msgs, handlers>>
    /\ UNCHANGED <<log, table, calls, response, assembly, split>>

----------------------------------------------------------------------------
(* Specifications *)

TaskIds == 1..Len(tasks)

MsgIds == 1..Len(msgs)

\* How a completion call ends: with one of the bodies without the marker, or
\* with None (the backend is unreachable or answers non-200)
Outcomes == {"short", "long", "blank", None}

\* The bodies that hold the marker, and the blank one
MarkerOutcomes == {"inner", "twice", "first", "last", "bare", "blank"}

Next ==
    \/ \E c \in Channels, kind \in DOMAIN MsgKinds : Arrive(c, kind)
    \/ \E m \in handlers, ok \in BOOLEAN : OnMessageResume(m, ok)
    \/ \E t \in TaskIds : Start(t)
    \/ \E t \in TaskIds : Assembled(t)
    \/ \E t \in TaskIds : TypingOk(t)
    \/ \E t \in TaskIds : TypingRaises(t)
    \/ \E t \in TaskIds, r \in Outcomes : LLMReturns(t, r)
    \/ \E t \in TaskIds, ok \in BOOLEAN : Recorded(t, ok)
    \/ \E t \in TaskIds : SendOk(t)
    \/ \E t \in TaskIds : SendRaises(t)
    \/ \E t \in TaskIds : ApologyOk(t)
    \/ \E t \in TaskIds : ApologyRaises(t)
    \/ \E t \in TaskIds : Slept(t)

Spec == Init /\ [][Next]_vars

TypeOK ==
    /\ Len(msgs) <= MaxMsgs
    /\ Len(hist) = Len(msgs)
    /\ handlers \subseteq MsgIds
    /\ DOMAIN message_queue \subseteq Channels
    /\ processing_channels \subseteq Channels
    /\ \A t \in TaskIds : tasks[t].ch \in Channels

----------------------------------------------------------------------------
(* Specifications with the scheduling of the event loop *)

\* Any step of task t
TaskStep(t) ==
    /\ t \in TaskIds
    /\  \/ Start(t)
        \/ Assembled(t)
        \/ TypingOk(t)
        \/ TypingRaises(t)
        \/ \E r \in Outcomes : LLMReturns(t, r)
        \/ \E ok \in BOOLEAN : Recorded(t, ok)
        \/ SendOk(t)
        \/ SendRaises(t)
        \/ ApologyOk(t)
        \/ ApologyRaises(t)
        \/ Slept(t)

\* A step of task t in which every call made to the messaging platform returns
CalmTaskStep(t) ==
    /\ t \in TaskIds
    /\  \/ Start(t)
        \/ Assembled(t)
        \/ TypingOk(t)
        \/ \E r \in Outcomes : LLMReturns(t, r)
        \/ \E ok \in BOOLEAN : Recorded(t, ok)
        \/ SendOk(t)
        \/ ApologyOk(t)
        \/ Slept(t)

HandlerStep(m) == \E ok \in BOOLEAN : OnMessageResume(m, ok)

\* The event loop runs the tasks that are ready, and every remote call returns
\* (with a result or an exception): while a handler can step, some handler
\* does, and while a task can step, some task does.
FairSpec ==
    /\ Spec
    /\ WF_vars(\E m \in 1..MaxMsgs : HandlerStep(m))
    /\ WF_vars(\E t \in 1..MaxMsgs : TaskStep(t))

NextCalm ==
    \/ \E c \in Channels, kind \in DOMAIN MsgKinds : Arrive(c, kind)
    \/ \E m \in handlers, ok \in BOOLEAN : OnMessageResume(m, ok)
    \/ \E t \in TaskIds : Start(t)
    \/ \E t \in TaskIds : Assembled(t)
    \/ \E t \in TaskIds : TypingOk(t)
    \/ \E t \in TaskIds, r \in Outcomes : LLMReturns(t, r)
    \/ \E t \in TaskIds, ok \in BOOLEAN : Recorded(t, ok)
    \/ \E t \in TaskIds : SendOk(t)
    \/ \E t \in TaskIds : ApologyOk(t)
    \/ \E t \in TaskIds : Slept(t)

\* The same, when no call to the messaging platform raises
CalmSpec ==
    /\ Init /\ [][NextCalm]_vars
    /\ WF_vars(\E m \in 1..MaxMsgs : HandlerStep(m))
    /\ WF_vars(\E t \in 1..MaxMsgs : CalmTaskStep(t))

\* The dispatcher when the completion backend answers with bodies that hold
\* the marker
NextMarker ==
    \/ \E c \in Channels, kind \in DOMAIN MsgKinds : Arrive(c, kind)
    \/ \E m \in handlers, ok \in BOOLEAN : OnMessageResume(m, ok)
    \/ \E t \in TaskIds : Start(t)
    \/ \E t \in TaskIds : Assembled(t)
    \/ \E t \in TaskIds : TypingOk(t)
    \/ \E t \in TaskIds : TypingRaises(t)
    \/ \E t \in TaskIds, r \in MarkerOutcomes : LLMReturns(t, r)
    \/ \E t \in TaskIds, ok \in BOOLEAN : Recorded(t, ok)
    \/ \E t \in TaskIds : SendOk(t)
    \/ \E t \in TaskIds : SendRaises(t)
    \/ \E t \in TaskIds : ApologyOk(t)
    \/ \E t \in TaskIds : ApologyRaises(t)
    \/ \E t \in TaskIds : Slept(t)

MarkerSpec == Init /\ [][NextMarker]_vars

\* The channel whose completion calls never return
StuckChannel == "c1"

\* A step of task t when no call to the messaging platform raises and a
\* completion call made for StuckChannel does not return
StuckTaskStep(t) ==
    /\ t \in TaskIds
    /\  \/ Start(t)
        \/ Assembled(t)
        \/ TypingOk(t)
        \/ \E r \in Outcomes : tasks[t].ch # StuckChannel /\ LLMReturns(t, r)
        \/ \E ok \in BOOLEAN : Recorded(t, ok)
        \/ SendOk(t)
        \/ ApologyOk(t)
        \/ Slept(t)

NextStuck ==
    \/ \E c \in Channels, kind \in DOMAIN MsgKinds : Arrive(c, kind)
    \/ \E m \in handlers, ok \in BOOLEAN : OnMessageResume(m, ok)
    \/ \E t \in TaskIds : Start(t)
    \/ \E t \in TaskIds : Assembled(t)
    \/ \E t \in TaskIds : TypingOk(t)
    \/ \E t \in TaskIds, r \in Outcomes : tasks[t].ch # StuckChannel /\ LLMReturns(t, r)
    \/ \E t \in TaskIds, ok \in BOOLEAN : Recorded(t, ok)
    \/ \E t \in TaskIds : SendOk(t)
    \/ \E t \in TaskIds : ApologyOk(t)
    \/ \E t \in TaskIds : Slept(t)

\* CalmSpec with the completion backend never answering a request made for
\* StuckChannel: every other remote call returns, and the event loop runs the
\* handlers and tasks that are ready
StuckSpec ==
    /\ Init /\ [][NextStuck]_vars
    /\ WF_vars(\E m \in 1..MaxMsgs : HandlerStep(m))
    /\ WF_vars(\E t \in 1..MaxMsgs : StuckTaskStep(t))

----------------------------------------------------------------------------
(* The store service: add_message and the two queries *)

\* datetime.utcnow() at line 55: the clock moves on between two requests, so
\* the n-th request reads the n-th instant
utcnow == Len(calls) + 1

\* add_message is called: it takes the timestamp and awaits get_embedding.
AddMessage(message) ==
    /\ Len(calls) < MaxAdds
    /\ calls' = Append(calls, [message |-> message,
                               timestamp |-> utcnow, pc |-> "embedding", lookup |-> "-",
                               status |-> 0, message_id |-> 0])
    /\ response' = NoResponse
    /\ UNCHANGED table
    /\ UNCHANGED dispatcherVars

\* get_embedding ends for request i: add_message inserts the row and answers
\* with its rowid, or, when get_embedding raised, ends with status 500.
EmbeddingReturns(i, outcome) ==
    /\ calls[i].pc = "embedding"
    /\ IF outcome = "unreachable"
       THEN /\ calls' = [calls EXCEPT ![i] =
                   [@ EXCEPT !.pc = "done", !.lookup = outcome, !.status = 500]]
            /\ UNCHANGED table
       ELSE /\ table' = Insert(table,
                    [channel_id |-> calls[i].message.channel_id,
                     user_id |-> calls[i].message.user_id,
                     timestamp |-> calls[i].timestamp,
                     replying_to |-> calls[i].message.replying_to,
                     content |-> calls[i].message.content,
                     embedding |-> json_dumps(get_embedding(calls[i].message.content, outcome)),
                     role |-> calls[i].message.role,
                     call |-> i])
            /\ calls' = [calls EXCEPT ![i] =
                   [@ EXCEPT !.pc = "done", !.lookup = outcome, !.status = 200,
                             !.message_id = Len(table) + 1]]
    /\ response' = NoResponse
    /\ UNCHANGED dispatcherVars

\* GET /get_conversation_history/{channel_id}?limit=
\* (One answer is looked at for each state of the table: a further query on
\* the same table would only put its answer in the place of this one.)
GetConversationHistory(channel_id, limit) ==
    /\ response = NoResponse
    /\ response' = [op |-> "get_conversation_history", channel_id |-> channel_id,
                    query |-> 0, limit |-> limit, lookup |-> "-", at |-> Len(table), status |-> 200,
                    ids |-> get_conversation_history(table, channel_id, limit)]
    /\ UNCHANGED <<table, calls>>
    /\ UNCHANGED dispatcherVars

\* GET /get_relevant_context/{channel_id}?query=&limit=
GetRelevantContext(channel_id, query, outcome, limit) ==
    /\ response = NoResponse
    /\ \E a \in RelevantContextAnswers(table, channel_id, query, outcome, limit) :
           response' = [op |-> "get_relevant_context", channel_id |-> channel_id,
                        query |-> query, limit |-> limit, lookup |-> outcome,
                        at |-> Len(table), status |-> a.status, ids |-> a.ids]
    /\ UNCHANGED <<table, calls>>
    /\ UNCHANGED dispatcherVars

StoreNext ==
    \/ \E c \in Channels, text \in Texts : AddMessage(Message(c, text))
    \/ \E i \in 1..Len(calls), outcome \in EmbeddingOutcomes : EmbeddingReturns(i, outcome)
    \/ \E c \in Channels, limit \in Limits : GetConversationHistory(c, limit)
    \/ \E c \in Channels, text \in Texts, outcome \in EmbeddingOutcomes, limit \in Limits :
           GetRelevantContext(c, text, outcome, limit)

\* The store service alone, the dispatcher's variables as in Init
StoreSpec == Init /\ [][StoreNext]_vars

\* get_structured_input(channel_id, current_message): the two queries, with
\* the default limits, then the prompt.  hs, cs: the store answers the history
\* query, the context query; outcome: how the store's lookup of the query's
\* embedding ends.  `failed` keeps which of the two queries logged an error
\* (the request raised, or the status was not 200).
GetStructuredInput(channel_id, current_message, hs, cs, outcome) ==
    /\ ~assembly.called
    /\ \E a \in RelevantContextAnswers(table, channel_id, current_message.content,
                                        outcome, context_limit) :
           LET history ==
                   QueryResult(hs, 200,
                       Answer(table, get_conversation_history(table, channel_id, history_limit)))
               relevant_context == QueryResult(cs, a.status, Answer(table, a.ids))
           IN  assembly' =
                   [called |-> TRUE, channel_id |-> channel_id,
                    current_message |-> current_message,
                    failed |-> [history |-> ~hs, context |-> ~(cs /\ a.status = 200)],
                    history |-> history, relevant_context |-> relevant_context,
                    structured_input |->
                        get_structured_input(history, relevant_context, current_message)]
    /\ UNCHANGED <<msgs, handlers, message_queue, processing_channels, tasks, hist, log>>
    /\ UNCHANGED storeVars
    /\ UNCHANGED split

PromptInit ==
    /\ DispatcherInit
    /\ log = [on |-> FALSE, lines |-> 0]
    /\ \E n \in 0..MaxRows, shape \in Shapes :
           /\ table = PromptTable(n, shape)
           /\ calls = PromptCalls(n, shape)
    /\ response = NoResponse
    /\ assembly = NoAssembly
    /\ split = NoSplit

PromptNext ==
    \E c \in Channels, m \in CurrentMessages, hs \in BOOLEAN, cs \in BOOLEAN,
       outcome \in EmbeddingOutcomes :
        GetStructuredInput(c, m, hs, cs, outcome)

\* The assembly of one prompt over a store that holds up to MaxRows messages
PromptSpec == PromptInit /\ [][PromptNext]_vars

\* split_message(content) is called and returns
SplitMessage ==
    /\ ~split.called
    /\ split' = [split EXCEPT !.called = TRUE, !.parts = split_message(split.content)]
    /\ UNCHANGED <<msgs, handlers, message_queue, processing_channels, tasks, hist, log>>
    /\ UNCHANGED <<table, calls, response, assembly>>

SplitInit ==
    /\ DispatcherInit
    /\ log = [on |-> FALSE, lines |-> 0]
    /\ StoreInit
    /\ assembly = NoAssembly
    /\ \E body \in SplitBodies : split = [NoSplit EXCEPT !.content = ExtractContent(body)]

SplitNext == SplitMessage

\* split_message applied to one reply that get_llm_response has returned
SplitSpec == SplitInit /\ [][SplitNext]_vars

\* The dispatcher with the lines of its logger kept
LoggedInit ==
    /\ DispatcherInit
    /\ log = [on |-> TRUE, lines |-> 0]
    /\ StoreInit
    /\ assembly = NoAssembly
    /\ split = NoSplit

LoggedSpec == LoggedInit /\ [][Next]_vars

----------------------------------------------------------------------------
(* Notions the properties are stated with *)

TasksOf(c) == {t \in TaskIds : tasks[t].ch = c}

\* A completion request of channel c is in flight in task t
InFlight(t) == tasks[t].pc = "llm"

\* No queue entry and no worker: the Idle state of a channel
Idle(c) ==
    /\ c \notin DOMAIN message_queue
    /\ c \notin processing_channels
    /\ \A t \in TasksOf(c) : tasks[t].pc = "done"

Enqueued(m) == m \in MsgIds /\ hist[m].enq > 0

Taken(m) == m \in MsgIds /\ hist[m].by > 0

\* The task that took m has left the batch m was taken in
BatchOver(m) ==
    LET t == hist[m].by
    IN  \/ tasks[t].pc \in {"sleep", "done"}
        \/ tasks[t].takes # hist[m].batch

SameBatch(a, b) == hist[a].by > 0 /\ hist[a].by = hist[b].by /\ hist[a].batch = hist[b].batch

----------------------------------------------------------------------------
(* Properties *)

\* C1: in every reachable state, each channel has at most one task whose
\* completion request (get_llm_response) is in flight.
C1_OneCompletionInFlight ==
    \A c \in Channels : Cardinality({t \in TasksOf(c) : InFlight(t)}) <= 1

\* C1 witness: a completion is in flight for a channel while a second task of
\* the same channel, created by a later on_message, is waiting to run.
C1_Witness ==
    \E t, u \in TaskIds :
        /\ t # u /\ tasks[t].ch = tasks[u].ch
        /\ InFlight(t) /\ tasks[u].pc = "scheduled"
        /\ tasks[t].ch \in DOMAIN message_queue

\* C2: no error terminates a channel worker: a worker stops only at the while
\* test, after the sleep that ends a batch, leaving no queue entry behind (so
\* every relevant message of its batch has been handled).
C2_NoErrorTerminatesWorker ==
    [][\A t \in TaskIds :
          (Active(t) /\ tasks'[t].pc = "done")
              => (tasks[t].pc = "sleep" /\ tasks[t].ch \notin DOMAIN message_queue')]_vars

\* Some enqueued message has not been taken yet
SomePending == \E m \in MsgIds : Enqueued(m) /\ ~Taken(m)

\* C3: when no call to the messaging platform raises, under fair scheduling
\* every enqueued message is eventually taken by a worker of its channel (again
\* and again a state is reached where no enqueued message is still untaken; a
\* taken message stays taken), and every channel ends up Idle for good
\* (arrivals are finitely many).
C3_EnqueuedIsTakenAndChannelIdles ==
    /\ []<>(~SomePending)
    /\ <>[](\A c \in Channels : Idle(c))

\* C3 witness: a message enqueued while its channel's worker was busy has been
\* taken in that worker's second batch and handled, and the channel is Idle.
C3_Witness ==
    \E m \in MsgIds : hist[m].batch = 2 /\ hist[m].done /\ Idle(msgs[m].ch)

\* C4: whenever no task of a channel is active or scheduled, the channel has
\* no entry in message_queue.
C4_NoWorkerNoQueueEntry ==
    \A c \in Channels :
        (\A t \in TasksOf(c) : tasks[t].pc = "done") => c \notin DOMAIN message_queue

\* worker t is handling message m
Handling(t, m) ==
    /\ tasks[t].pc \in {"assemble", "typing", "llm", "record", "send", "apology"}
    /\ CurMsg(t) = m

\* C5: a take removes the whole pending sequence of the channel in one step and
\* makes its relevant messages the batch; a batch in progress never changes; and
\* every enqueued message is eventually taken (none is lost).
C5_TakeAtomicNothingLost ==
    /\ [][\A t \in TaskIds :
             (tasks'[t].batch # tasks[t].batch /\ tasks'[t].batch # <<>>)
                 => LET c == tasks[t].ch
                    IN  /\ tasks[t].batch = <<>>
                        /\ c \in DOMAIN message_queue
                        /\ c \notin DOMAIN message_queue'
                        /\ tasks'[t].batch = SelectSeq(message_queue[c], Relevant)
                        /\ \A m \in Range(message_queue[c]) : hist'[m].by = t]_vars
    /\ \A m \in 1..MaxMsgs : Enqueued(m) ~> Taken(m)

\* C6: whenever a completion request has been issued for a relevant message b,
\* the reply or apology of every relevant message enqueued before b on the same
\* channel has been completely sent.
C6_RepliesInEnqueueOrder ==
    \A a, b \in MsgIds :
        (/\ msgs[a].ch = msgs[b].ch
         /\ Relevant(a) /\ Relevant(b)
         /\ 0 < hist[a].enq /\ hist[a].enq < hist[b].enq
         /\ hist[b].req > 0)
            => hist[a].done

\* C7: two relevant messages that were pending together are taken by the same
\* task in the same batch, are processed in their order, and both have been
\* processed when that task leaves the batch.
C7_PendingTogetherOneWorker ==
    \A a, b \in MsgIds :
        (a \in hist[b].mates /\ Relevant(a) /\ Relevant(b))
            => /\ (Taken(a) \/ Taken(b)) => SameBatch(a, b)
               /\ hist[b].req > 0 => hist[a].done
               /\ (Taken(b) /\ BatchOver(b)) => (hist[a].req = 1 /\ hist[b].req = 1)

\* C8: when the completion of a message has failed, every relevant message
\* after it in the same batch has got its own completion request by the time
\* the worker leaves the batch.
C8_CompletionFailureIsolated ==
    \A a, b \in MsgIds :
        (/\ hist[a].resp = "none"
         /\ SameBatch(a, b) /\ Relevant(b) /\ hist[a].enq < hist[b].enq
         /\ BatchOver(a))
            => hist[b].req = 1

\* C9: for a message whose completion failed, the apology is the only thing
\* emitted: no chunk is sent and no row is submitted to the store for a reply,
\* and msg.reply is called exactly once (it is pending until then).
C9_FailureOneApologyOnly ==
    \A m \in MsgIds :
        hist[m].resp = "none"
            => /\ hist[m].chunks = 0 /\ hist[m].sent = 0
               /\ hist[m].rows = <<>>
               /\ hist[m].apol <= 1
               /\ hist[m].apol = 0 => \E t \in TaskIds : Handling(t, m) /\ tasks[t].pc = "apology"

\* C9 witness: a completion has failed and its apology has been sent.
C9_Witness ==
    \E m \in MsgIds : hist[m].resp = "none" /\ hist[m].apol = 1 /\ hist[m].done

\* C10: for a message whose completion returned a reply, exactly one add_message
\* request is made for the reply, with role assistant (it is pending until it
\* returns), and it has returned before the first chunk is sent.
C10_ReplyRecordedOnceBeforeSend ==
    \A m \in MsgIds :
        hist[m].resp = "text"
            => /\ Len(hist[m].rows) <= 1
               /\ \A i \in 1..Len(hist[m].rows) : hist[m].rows[i] = "assistant"
               /\ hist[m].rows = <<>> => \E t \in TaskIds : Handling(t, m) /\ tasks[t].pc = "record"
               /\ (hist[m].chunks > 0 \/ \E t \in TaskIds : Handling(t, m) /\ tasks[t].pc = "send")
                      => Len(hist[m].rows) = 1
               /\ hist[m].apol = 0

\* C10 witness: a reply of two chunks has been submitted to the store and sent.
C10_Witness ==
    \E m \in MsgIds :
        hist[m].resp = "text" /\ hist[m].sent = 2 /\ Len(hist[m].rows) = 1 /\ hist[m].done

----------------------------------------------------------------------------
(* Storage failures, relevance *)

\* The handler of m is over: on_message has returned or raised
Handled(m) == m \in MsgIds /\ m \notin handlers

\* C11: an append that fails (add_message unreachable or non-200; the failure
\* is logged) stops neither on_message nor the worker.  Whatever the store
\* answered: a message whose record_user_message built its request is enqueued
\* when on_message ends if it should be processed, and a worker whose request
\* to record a reply is over goes on to send that reply (a channel.send call
\* is made, or the worker is about to make it).
C11_AppendFailureNeverStops ==
    \A m \in MsgIds :
        /\ (Handled(m) /\ hist[m].submitted > 0 /\ ShouldProcess(m)) => Enqueued(m)
        /\ Len(hist[m].rows) > 0 =>
               \/ hist[m].chunks > 0
               \/ \E t \in TaskIds : Handling(t, m) /\ tasks[t].pc = "send"

\* One message only; its append and the append of its reply both failed and
\* were logged, and the reply has been sent completely.
C11_Witness ==
    /\ Len(msgs) = 1
    /\ log.lines = 2
    /\ hist[1].submitted = 1 /\ Len(hist[1].rows) = 1
    /\ hist[1].done /\ hist[1].sent = hist[1].parts /\ hist[1].parts > 0

\* C12: every inbound message not authored by the assistant is submitted to
\* the store (the request is being made or has been made), relevant or not;
\* and for a message that meets none of the relevance criteria no completion
\* is requested, no chunk is sent and no apology is made.
C12_AllSubmittedOnlyRelevantAnswered ==
    \A m \in MsgIds :
        /\ ~Kind(m).self => (m \in handlers \/ hist[m].submitted = 1)
        /\ ~Relevant(m) => (hist[m].req = 0 /\ hist[m].chunks = 0 /\ hist[m].apol = 0)

\* get_structured_input has been called for m
Forwarded(m) == hist[m].asm > 0 \/ \E t \in TaskIds : Handling(t, m)

\* C13: once a worker has left a batch, the messages of the batch that were
\* forwarded to context assembly are exactly those that mention the
\* assistant, contain its name, are authored by a peer assistant or reply to
\* the assistant.
C13_ForwardedIffRelevant ==
    \A m \in MsgIds :
        (Taken(m) /\ BatchOver(m)) =>
            (Forwarded(m) <=>
                (Kind(m).mentioned \/ Kind(m).named \/ Kind(m).peer \/ Kind(m).reply))

\* C14: a message picked by the random sampling of on_message that meets no
\* other criterion is, once a worker has taken it and left its batch,
\* forwarded to context assembly and has got its completion request.
C14_SampledIsRelevant ==
    \A m \in MsgIds :
        (Kind(m).sampled /\ ~Relevant(m) /\ Taken(m) /\ BatchOver(m)) =>
            (Forwarded(m) /\ hist[m].req = 1)

\* C15: a relevant message never has more than one completion request, and it
\* has exactly one once a worker has taken it and left its batch; when the
\* only message is addressed to the assistant and its completion gave a reply
\* of one chunk, then once that message is done there has been one
\* get_structured_input call, made for that message, one completion request
\* and one channel.send.
C15_OneRequestPerRelevantMessage ==
    /\ \A m \in MsgIds :
           Relevant(m) =>
               /\ hist[m].req <= 1
               /\ (Taken(m) /\ BatchOver(m)) => hist[m].req = 1
    /\ (Len(msgs) = 1 /\ Kind(1).mentioned /\ hist[1].parts = 1 /\ hist[1].done) =>
           (hist[1].asm = 1 /\ hist[1].req = 1 /\ hist[1].chunks = 1)

----------------------------------------------------------------------------
(* The store *)

\* The table as the latest query read it
TableRead == SubSeq(table, 1, response.at)

\* Row i holds an embedding
Embedded(rows, i) == rows[i].embedding.text # "null"

\* C16: of two stored messages, the one with the smaller id (the one inserted
\* earlier) has the earlier or the same timestamp.
C16_IdOrderIsTimestampOrder ==
    \A i, j \in 1..Len(table) : i < j => table[i].timestamp <= table[j].timestamp

\* C17: get_conversation_history(channel, limit) returns at most limit
\* messages, namely the most recently inserted messages of the channel,
\* oldest first: ids and timestamps never decrease along the answer.
C17_RecentMostRecentOldestFirst ==
    response.op = "get_conversation_history" =>
        LET mine == RowsOf(TableRead, response.channel_id)
            n == IF response.limit < Len(mine) THEN response.limit ELSE Len(mine)
            ids == response.ids
        IN  /\ Len(ids) <= response.limit
            /\ ids = SubSeq(mine, Len(mine) - n + 1, Len(mine))
            /\ \A k \in 1..(Len(ids) - 1) :
                   /\ ids[k] <= ids[k + 1]
                   /\ table[ids[k]].timestamp <= table[ids[k + 1]].timestamp

\* C18: when the embedding lookup of an add_message request has failed (a
\* non-200 answer, or no connection), the request is answered with status 200
\* and a message_id, and the row of that id is the request's message with an
\* empty embedding.
C18_EmbeddingFailureStillStores ==
    \A i \in 1..Len(calls) :
        (calls[i].pc = "done" /\ calls[i].lookup \in {"non200", "unreachable"}) =>
            /\ calls[i].status = 200
            /\ calls[i].message_id \in 1..Len(table)
            /\ table[calls[i].message_id].call = i
            /\ ~Embedded(table, calls[i].message_id)

\* C19: a similarity query (its own embedding lookup answered) on a channel
\* that holds messages with and messages without an embedding succeeds and
\* returns only messages that have an embedding.
C19_UnembeddedRowsSkipped ==
    LET mine == Range(RowsOf(TableRead, response.channel_id))
    IN  ( /\ response.op = "get_relevant_context"
          /\ response.lookup = "ok"
          /\ \E i \in mine : Embedded(table, i)
          /\ \E i \in mine : ~Embedded(table, i) ) =>
            /\ response.status = 200
            /\ \A k \in 1..Len(response.ids) : Embedded(table, response.ids[k])

\* C20: a similarity query (its own embedding lookup answered) on a channel
\* without any message that has an embedding, be it a channel without
\* messages or one whose messages all lack the embedding, succeeds and returns
\* the empty sequence.
C20_NoEmbeddedRowsGivesEmpty ==
    LET mine == Range(RowsOf(TableRead, response.channel_id))
    IN  ( /\ response.op = "get_relevant_context"
          /\ response.lookup = "ok"
          /\ \A i \in mine : ~Embedded(table, i) ) =>
            (response.status = 200 /\ response.ids = <<>>)

----------------------------------------------------------------------------
(* The store: similarity queries, channels, append-only *)

\* The latest query is a similarity query that was answered with a list
SimilarAnswered == response.op = "get_relevant_context" /\ response.status = 200

\* The rows of the queried channel, and the embedding of the query
Mine == Range(RowsOf(TableRead, response.channel_id))

QueryEmbedding == Embed(response.query)

\* The similarity of row i to the query is less than / the same as that of row j
Lower(i, j) ==
    SimLess(QueryEmbedding, json_loads(table[i].embedding), json_loads(table[j].embedding))

Tie(i, j) == ~Lower(i, j) /\ ~Lower(j, i)

Returned == Range(response.ids)

\* The place of row i in the answer
Place(i) == CHOOSE k \in 1..Len(response.ids) : response.ids[k] = i

\* C21: an answered get_relevant_context(channel, query, limit), limit >= 0,
\* returns at most limit messages (as many as the channel has, when it has
\* fewer); they are embedded messages of the channel, none of the messages
\* left out is more similar to the query than one returned, and the answer is
\* in descending order of similarity.
C21_TopLimitBySimilarity ==
    SimilarAnswered =>
        LET ids == response.ids
            n == IF response.limit < Cardinality(Mine) THEN response.limit ELSE Cardinality(Mine)
        IN  /\ Len(ids) = n
            /\ \A i \in Returned : i \in Mine /\ Embedded(table, i)
            /\ \A i \in Returned, j \in Mine \ Returned : ~Lower(i, j)
            /\ \A k \in 1..(Len(ids) - 1) : ~Lower(ids[k], ids[k + 1])

\* C22: every message a query returns for channel c is a row that was
\* appended with channel_id c.
C22_OnlyOwnChannel ==
    response.status = 200 =>
        \A k \in 1..Len(response.ids) :
            /\ response.ids[k] \in 1..Len(table)
            /\ table[response.ids[k]].channel_id = response.channel_id
            /\ calls[table[response.ids[k]].call].message.channel_id = response.channel_id

\* Both queries have returned a message while another channel holds messages
C22_Witness ==
    /\ response.status = 200
    /\ response.ids # <<>>
    /\ \E i \in 1..Len(table) : table[i].channel_id # response.channel_id

\* C23: of two messages of the channel with the same similarity to the query,
\* the one inserted later (larger id) comes first in the answer when both are
\* returned, and is the one returned when only one of them is.
C23_TiesMostRecentFirst ==
    SimilarAnswered =>
        \A i, j \in Mine :
            (i < j /\ Tie(i, j) /\ i \in Returned) =>
                (j \in Returned /\ Place(j) < Place(i))

\* C24: when the channel holds a message appended with the embedding of the
\* query, a similarity query (its own embedding lookup answered, limit >= 1)
\* succeeds, and that message is in the answer with only messages of the same
\* similarity before it, or the answer is full of messages of the same
\* similarity.
C24_RoundTripRanksFirst ==
    ( /\ response.op = "get_relevant_context"
      /\ response.lookup = "ok"
      /\ response.limit >= 1 ) =>
        \A i \in Mine :
            table[i].embedding = json_dumps(QueryEmbedding) =>
                /\ response.status = 200
                /\ \/ i \in Returned /\ \A k \in 1..(Place(i) - 1) : Tie(response.ids[k], i)
                   \/ /\ Len(response.ids) = response.limit
                      /\ \A j \in Returned : Tie(j, i)

\* C25: a step that changes the table is the insert of an add_message
\* request and adds one row after the rows there were, which stay as they
\* are; a step that answers a query leaves the table as it is.
C25_AppendOnly ==
    [][ /\ table' # table =>
            /\ Len(table') = Len(table) + 1
            /\ SubSeq(table', 1, Len(table)) = table
            /\ \E i \in 1..Len(calls) : calls[i].pc = "embedding" /\ calls'[i].pc = "done"
        /\ (response' # response /\ response' # NoResponse) => table' = table ]_vars

\* Two rows have been inserted and a query on them has been answered
C25_Witness ==
    /\ Len(table) = 2
    /\ response.status = 200
    /\ Len(response.ids) = 2


----------------------------------------------------------------------------
(* Outbound chunks *)

\* C29: every chunk of a reply has at most MAX_MESSAGE_LENGTH characters; a
\* worker that is sending a reply sends its chunks in their order (the next
\* one is the one after those already sent); and when anything has been sent
\* for a relevant message b, every chunk of the reply of each relevant message
\* enqueued before b on the same channel has been sent.
C29_ChunksBoundedAndInOrder ==
    /\ \A r \in DOMAIN ReplyParts : \A k \in DOMAIN ReplyParts[r] :
           Len(ReplyParts[r][k]) <= MAX_MESSAGE_LENGTH
    /\ \A t \in TaskIds : tasks[t].pc = "send" => tasks[t].k = hist[CurMsg(t)].sent
    /\ \A a, b \in MsgIds :
           (/\ msgs[a].ch = msgs[b].ch
            /\ Relevant(a) /\ Relevant(b)
            /\ 0 < hist[a].enq /\ hist[a].enq < hist[b].enq
            /\ hist[b].chunks + hist[b].apol > 0)
               => hist[a].sent = hist[a].parts

----------------------------------------------------------------------------
(* The prompt *)

Prompt == assembly.structured_input

\* The entries of the prompt that frame a past message
FramedAt == {k \in DOMAIN Prompt : Prompt[k].form = "message"}

\* C26: the assembled prompt is, in this order, the system-framing entry, the
\* delimited block of at most 5 similar messages, the delimited block of at
\* most 10 recent messages in chronological order, and (after the task
\* delimiter) the entry for the triggering message, which is the last one.
C26_PromptOrder ==
    assembly.called =>
        \E r \in 0..context_limit, h \in 0..history_limit :
            /\ Len(Prompt) = r + h + 7
            /\ Prompt[1] = Framing
            /\ Prompt[2] = Delimiter("--- RAG Context Start ---")
            /\ \A k \in 3..(r + 2) : Prompt[k].form = "message"
            /\ Prompt[r + 3] = Delimiter("--- RAG Context End ---")
            /\ Prompt[r + 4] = Delimiter("--- Recent Messages Start ---")
            /\ \A k \in (r + 5)..(r + h + 4) : Prompt[k].form = "message"
            /\ \A j, k \in (r + 5)..(r + h + 4) : j < k => Prompt[j].time <= Prompt[k].time
            /\ Prompt[r + h + 5] = Delimiter("--- Recent Messages End ---")
            /\ Prompt[r + h + 6] = Delimiter("--- Task ---")
            /\ Prompt[r + h + 7] = RespondTo(assembly.current_message)

\* A prompt with both blocks full, over a channel that holds more messages
\* than the recent block takes
C26_Witness ==
    /\ assembly.called
    /\ Len(assembly.relevant_context) = context_limit
    /\ Len(assembly.history) = history_limit
    /\ Len(RowsOf(table, assembly.channel_id)) > history_limit

\* C27: the final entry of the prompt encodes the triggering message's
\* author, timestamp, reply-target and content: no triggering message that
\* differs in one of them has the same final entry.
C27_FinalEntryEncodesMessage ==
    assembly.called =>
        \A m \in CurrentMessages :
            RespondTo(m) = Prompt[Len(Prompt)] =>
                /\ m.author = assembly.current_message.author
                /\ m.created_at = assembly.current_message.created_at
                /\ m.reference = assembly.current_message.reference
                /\ m.content = assembly.current_message.content

\* C28: every framed entry for a past message, in the similar block and in
\* the recent block, carries the id, author, timestamp, reply-target (the
\* marker None when the row has none) and content of the stored row of that
\* id.
C28_FramedEntriesEncodeRows ==
    assembly.called =>
        \A k \in FramedAt :
            /\ Prompt[k].id \in 1..Len(table)
            /\ Prompt[k].speaker = table[Prompt[k].id].user_id
            /\ Prompt[k].time = table[Prompt[k].id].timestamp
            /\ Prompt[k].replying_to =
                   (IF table[Prompt[k].id].replying_to = None
                    THEN NoneMarker ELSE table[Prompt[k].id].replying_to)
            /\ Prompt[k].message = table[Prompt[k].id].content

\* A prompt with entries in both blocks, one with the marker and one with a
\* reply target
C28_Witness ==
    /\ assembly.called
    /\ assembly.relevant_context # <<>>
    /\ assembly.history # <<>>
    /\ \E j, k \in FramedAt :
           /\ Prompt[j].replying_to = NoneMarker
           /\ Prompt[k].replying_to # NoneMarker


----------------------------------------------------------------------------
(* split_message *)

\* What is left of the reply when its chunk k is cut
RECURSIVE Remaining(_)
Remaining(k) ==
    IF k = 1 THEN split.content
    ELSE lstrip(SubSeq(Remaining(k - 1), Len(split.parts[k - 1]) + 1, Len(Remaining(k - 1))))

\* The lengths of the prefixes of text that have at most MAX_MESSAGE_LENGTH
\* characters and are immediately followed by whitespace
Boundaries(text) ==
    {p \in 1..MAX_MESSAGE_LENGTH : p < Len(text) /\ IsSpace(text[p + 1])}

Longest(S) == CHOOSE p \in S : \A q \in S : q <= p

\* C30: for a reply longer than MAX_MESSAGE_LENGTH, each chunk but the last is
\* the longest prefix of the remaining text that has at most
\* MAX_MESSAGE_LENGTH characters and is immediately followed by whitespace,
\* and is the first MAX_MESSAGE_LENGTH characters when there is no such
\* prefix.
C30_ChunkEndsAtLastBoundary ==
    (split.called /\ Len(split.content) > MAX_MESSAGE_LENGTH) =>
        \A k \in 1..(Len(split.parts) - 1) :
            Len(split.parts[k]) =
                IF Boundaries(Remaining(k)) = {} THEN MAX_MESSAGE_LENGTH
                ELSE Longest(Boundaries(Remaining(k)))


\* The chunks from chunk k on are found in the reply from position pos on,
\* one after the other, with nothing but whitespace between two of them and
\* nothing after the last
RECURSIVE Rebuilds(_, _)
Rebuilds(k, pos) ==
    LET part == split.parts[k]
        end == pos + Len(part)
        rest == SubSeq(split.content, end + 1, Len(split.content))
    IN  /\ end <= Len(split.content)
        /\ SubSeq(split.content, pos + 1, end) = part
        /\ IF k = Len(split.parts) THEN rest = <<>>
           ELSE \E w \in 0..Len(rest) :
                    /\ \A i \in 1..w : IsSpace(rest[i])
                    /\ Rebuilds(k + 1, end + w)

\* A reply of twice MAX_MESSAGE_LENGTH characters with a single space, not
\* at its ends and not within 100 characters of MAX_MESSAGE_LENGTH
OneSpaceFarFromBudget(text) ==
    /\ Len(text) = 2 * MAX_MESSAGE_LENGTH
    /\ \E i \in 2..(Len(text) - 1) :
           /\ text[i] = " "
           /\ \A j \in 1..Len(text) : IsSpace(text[j]) => j = i
           /\ (i < MAX_MESSAGE_LENGTH - 100 \/ i > MAX_MESSAGE_LENGTH + 100)

\* C31: the chunks, put one after the other with the whitespace removed at
\* each split point put back, are the reply; and a reply of 3800 characters
\* with a single interior space and no whitespace near the budget boundary
\* gives exactly two chunks.
C31_ChunksRebuildReply ==
    split.called =>
        /\ Rebuilds(1, 0)
        /\ OneSpaceFarFromBudget(split.content) => Len(split.parts) = 2


----------------------------------------------------------------------------
(* Channels, workers, handlers *)

\* C32: with the completion calls of StuckChannel never returning, every
\* relevant message enqueued on another channel is eventually taken and
\* answered, its reply or apology completely sent.
C32_OtherChannelProgresses ==
    \A m \in 1..MaxMsgs :
        (m \in MsgIds /\ msgs[m].ch # StuckChannel /\ Relevant(m) /\ Enqueued(m))
            ~> (Taken(m) /\ hist[m].req = 1 /\ hist[m].done)

\* A worker of StuckChannel waits for its completion, and a message that
\* arrived later on another channel has been answered
C32_Witness ==
    \E t \in TaskIds, m \in MsgIds :
        /\ tasks[t].ch = StuckChannel /\ InFlight(t)
        /\ CurMsg(t) < m
        /\ msgs[m].ch # StuckChannel /\ Relevant(m)
        /\ hist[m].done /\ hist[m].sent + hist[m].apol > 0


\* C33: a task that runs for the first time while its channel is in
\* processing_channels returns in that step and leaves message_queue,
\* processing_channels and the store as they were; and a message that is
\* pending while its channel has an active worker is eventually taken.
C33_SecondWorkerExitsAndChangesNothing ==
    /\ [][\A t \in TaskIds :
             (/\ tasks[t].pc = "scheduled"
              /\ tasks[t].ch \in processing_channels
              /\ tasks'[t] # tasks[t])
                 => /\ tasks'[t].pc = "done"
                    /\ UNCHANGED <<message_queue, processing_channels, table>>]_vars
    /\ \A m \in 1..MaxMsgs :
           (m \in MsgIds /\ Enqueued(m) /\ ~Taken(m) /\ msgs[m].ch \in processing_channels)
               ~> Taken(m)


\* C34: a message is enqueued only when the attempt to record it has
\* finished; so for every message a worker has taken, and for every message
\* whose context was assembled or whose completion was requested, that
\* attempt has finished, once.
C34_RecordedBeforeEnqueued ==
    \A m \in MsgIds :
        (Enqueued(m) \/ Taken(m) \/ hist[m].asm > 0 \/ hist[m].req > 0)
            => hist[m].submitted = 1

\* A taken message whose completion was requested
C34_Witness ==
    \E m \in MsgIds : Taken(m) /\ hist[m].asm = 1 /\ hist[m].req = 1 /\ hist[m].submitted = 1


\* C35: the event for a message of the assistant itself changes nothing (no
\* handler left waiting, no queue entry, no task, no worker, no row), and
\* such a message is never recorded, enqueued, taken or answered; the reply
\* to a message is stored at most once, by the worker that sends it.
C35_OwnMessagesChangeNothing ==
    /\ [](\A m \in MsgIds :
             /\ Kind(m).self => (hist[m] = NoHist /\ m \notin handlers)
             /\ Len(hist[m].rows) <= 1
             /\ hist[m].rows # <<>> => hist[m].by > 0)
    /\ [][(Len(msgs') > Len(msgs) /\ MsgKinds[msgs'[Len(msgs')].kind].self)
             => UNCHANGED <<handlers, message_queue, processing_channels, tasks, table, calls>>]_vars

\* A reply was stored and sent, and then an event for a message of the
\* assistant arrived on that channel
C35_Witness ==
    \E a, m \in MsgIds :
        /\ a < m /\ msgs[a].ch = msgs[m].ch
        /\ hist[a].rows = <<ReplyRole>> /\ hist[a].sent > 0 /\ hist[a].done
        /\ Kind(m).self


----------------------------------------------------------------------------
(* The completion text *)

\* The workers for which get_llm_response has returned a text and that are
\* still at the message it was requested for
Answered == {t \in TaskIds : tasks[t].pc \in {"record", "send", "apology"} /\ tasks[t].resp # None}

HasMarker(text) == \E i \in 0..(Len(text) - Len(Marker)) : OccursAt(text, Marker, i)

EndsWithMarker(text) ==
    Len(text) >= Len(Marker) /\ OccursAt(text, Marker, Len(text) - Len(Marker))

\* The text that follows the first occurrence of the marker
AfterFirstMarker(text) ==
    LET at == CHOOSE i \in 0..(Len(text) - Len(Marker)) :
                  OccursAt(text, Marker, i) /\ \A j \in 0..(i - 1) : ~OccursAt(text, Marker, j)
    IN  SubSeq(text, at + Len(Marker) + 1, Len(text))

\* C36: what get_llm_response returns for a completion text is the
\* (stripped) text that follows the first occurrence of the marker when the
\* stripped completion text holds the marker, at whatever position, and the
\* whole stripped text when it does not.
C36_TextAfterMarker ==
    \A t \in Answered :
        LET full_response == strip(LLMTexts[tasks[t].resp])
        IN  ResponseContent(tasks[t].resp) =
                IF HasMarker(full_response) THEN strip(AfterFirstMarker(full_response))
                ELSE full_response

\* C37: a completion that returned a text which is empty after stripping, or
\* which ends with the marker, is handled as a failure: the worker goes to
\* the apology, nothing is recorded and no chunk is sent for the message, and
\* one apology is sent for it.
C37_EmptyTextIsFailure ==
    /\ \A t \in Answered :
           LET full_response == strip(LLMTexts[tasks[t].resp])
           IN  (full_response = <<>> \/ EndsWithMarker(full_response))
                   => /\ tasks[t].pc = "apology"
                      /\ hist[CurMsg(t)].resp = "empty"
    /\ \A m \in MsgIds :
           hist[m].resp = "empty"
               => /\ hist[m].rows = <<>>
                  /\ hist[m].chunks = 0
                  /\ hist[m].apol <= 1
                  /\ hist[m].done => hist[m].apol = 1


----------------------------------------------------------------------------
(* Empty chunks *)

\* C38: a reply that is passed to split_message is not empty and has no
\* leading or trailing whitespace, and split_message returns no empty chunk
\* for it.
C38_NoEmptyChunk ==
    /\ split.content # <<>>
    /\ ~IsSpace(split.content[1]) /\ ~IsSpace(split.content[Len(split.content)])
    /\ split.called => \A k \in DOMAIN split.parts : split.parts[k] # <<>>

\* A reply cut into three chunks, with whitespace dropped at a split point
C38_Witness ==
    /\ split.called
    /\ Len(split.parts) = 3
    /\ Len(split.parts[1]) + Len(split.parts[2]) + Len(split.parts[3]) < Len(split.content)


----------------------------------------------------------------------------
(* Failed queries *)

\* The number of entries of the similar block, of the recent block
SimilarLen == Len(assembly.relevant_context)

RecentLen == Len(assembly.history)

----------------------------------------------------------------------------
(* Speaker types *)

\* The author who wrote the stored message of a framed entry
WrittenBy(k) == CHOOSE a \in DOMAIN Authors : Mention(a) = table[Prompt[k].id].user_id

\* C40: every stored message is held with role human when its author is no
\* bot, user when its author is another bot, assistant when it is a reply of
\* the assistant; and its entry in a prompt is framed as Human exactly when
\* its author is no bot, and as AI Assistant otherwise.
C40_HumanIffNotBot ==
    /\ \A i \in 1..Len(table) :
           LET a == Authors[CHOOSE x \in DOMAIN Authors : Mention(x) = table[i].user_id]
           IN  table[i].role = (IF ~a.bot THEN "human" ELSE IF ~a.self THEN "user" ELSE "assistant")
    /\ assembly.called =>
           \A k \in FramedAt :
               /\ Prompt[k].type = "Human" <=> ~Authors[WrittenBy(k)].bot
               /\ Prompt[k].type \in {"Human", "AI Assistant"}

\* A prompt that frames a message of a person, one of another bot and a
\* reply of the assistant
C40_Witness ==
    /\ assembly.called
    /\ \A a \in DOMAIN Authors : \E k \in FramedAt : WrittenBy(k) = a

====
